---------------------------- MODULE Spec2Model ----------------------------
(***************************************************************************)
(* Reaction-diffusion simulation of src/Main.c (Gray-Scott model on a      *)
(* fixed grid, two ping-pong buffers, periodic rendering).                 *)
(*                                                                         *)
(* Numbers.  A C float is modelled as a fixed-point decimal: the integer   *)
(* v stands for v / Scale.  Every product and quotient of two floats is    *)
(* rounded (toward zero) to that precision, as each float operation of the *)
(* code rounds its result.  All rate constants of Main.c are exact at this *)
(* precision.  The grid and the iteration count are scaled down.           *)
(***************************************************************************)
EXTENDS Integers, Sequences, FiniteSets, TLC

\* ------------------------------------------------------------------------
\* Sizes of the run (Main.c:38-41, 49), scaled down
\* ------------------------------------------------------------------------
ITERATIONS == 11
IterationCapture == 5
WIDTH == 6
HEIGHT == 5
CENTRE_CIRCLE_RADIUS == 2

\* ------------------------------------------------------------------------
\* float: fixed point with Scale units per 1.0F
\* ------------------------------------------------------------------------
Scale == 2000

DIFFUSION_RATE_A == 2000
DIFFUSION_RATE_B == 1000
TIME_STEP == 2000
ADJACENT_NEIGHBOUR_WEIGHT == 400
DIAGONAL_NEIGHBOUR_WEIGHT == 100
KILL_RATE_MAX == 124
FEED_RATE_MAX == 109

Abs(n) == IF n < 0 THEN -n ELSE n

\* n / d rounded toward zero (C conversion and the rounding of this model)
TruncDiv(n, d) ==
    IF (n >= 0) = (d > 0) THEN Abs(n) \div Abs(d) ELSE -(Abs(n) \div Abs(d))

\* float * float
FMul(p, q) == TruncDiv(p * q, Scale)

\* float / float
FDiv(p, q) == TruncDiv(p * Scale, q)

NULL == 0

Cells == 0 .. (WIDTH * HEIGHT - 1)

\* ------------------------------------------------------------------------
\* Grid engine
\* ------------------------------------------------------------------------
getKillRate(x, y) == KILL_RATE_MAX

getFeedRate(x, y) == FEED_RATE_MAX

\* Mutant of isWithinGrid: the bounds are checked on the flattened index.
isWithinGridByIndex(x, y) == x + y * WIDTH >= 0 /\ x + y * WIDTH < WIDTH * HEIGHT

isWithinGrid(x, y) == x >= 0 /\ x < WIDTH /\ y >= 0 /\ y < HEIGHT

xyToIndex(x, y) == x + y * WIDTH

\* The 9 iterations of the two nested loops of
\* calculateDifferenceBetweenCellAndNeighbours, in the order the code runs
\* them: x = -1..1 outside, y = -1..1 inside.
OffsetX(k) == ((k - 1) \div 3) - 1

OffsetY(k) == ((k - 1) % 3) - 1

\* Mutant of neighbourWeight: the test for an orthogonal neighbour written
\* with && for ||.
neighbourWeightBothZero(x, y) ==
    IF x = 0 /\ y = 0 THEN ADJACENT_NEIGHBOUR_WEIGHT ELSE DIAGONAL_NEIGHBOUR_WEIGHT

neighbourWeight(x, y) ==
    IF x = 0 \/ y = 0 THEN ADJACENT_NEIGHBOUR_WEIGHT ELSE DIAGONAL_NEIGHBOUR_WEIGHT

\* One iteration of the loop body (Main.c:87-101), iteration k of 9: what
\* it adds to difference.a and difference.b, whether it is the subtraction
\* of the cell itself, and the grid access it makes (none or one).
neighbourStep(grid, cell, xPos, yPos, k) ==
    LET x == OffsetX(k)
        y == OffsetY(k)
        gridX == xPos + x
        gridY == yPos + y
    IN  IF x = 0 /\ y = 0
        THEN [a |-> -cell.a, b |-> -cell.b, self |-> 1, reads |-> <<>>]
        ELSE IF isWithinGrid(gridX, gridY)
        THEN LET index == xyToIndex(gridX, gridY)
                 gridCell == grid[index]
                 weight == neighbourWeight(x, y)
             IN  [a |-> FMul(weight, gridCell.a),
                  b |-> FMul(weight, gridCell.b),
                  self |-> 0,
                  reads |-> <<[dx |-> x, dy |-> y, index |-> index, weight |-> weight]>>]
        ELSE [a |-> 0, b |-> 0, self |-> 0, reads |-> <<>>]

\* The two nested loops, unrolled: difference starts at {0, 0} and the 9
\* iterations add to it in order.  self counts the subtractions of the cell
\* itself, reads lists the grid accesses in order.
calculateDifferenceBetweenCellAndNeighbours(grid, cell, xPos, yPos) ==
    LET t == [k \in 1 .. 9 |-> neighbourStep(grid, cell, xPos, yPos, k)]
    IN  [a |-> 0 + t[1].a + t[2].a + t[3].a + t[4].a + t[5].a + t[6].a + t[7].a
                 + t[8].a + t[9].a,
         b |-> 0 + t[1].b + t[2].b + t[3].b + t[4].b + t[5].b + t[6].b + t[7].b
                 + t[8].b + t[9].b,
         self |-> t[1].self + t[2].self + t[3].self + t[4].self + t[5].self
                  + t[6].self + t[7].self + t[8].self + t[9].self,
         reads |-> t[1].reads \o t[2].reads \o t[3].reads \o t[4].reads \o t[5].reads
                   \o t[6].reads \o t[7].reads \o t[8].reads \o t[9].reads]

\* calculateNewValue: the value stored through newValue, and the accesses
\* to currentGrid (the cell itself, then its neighbours).
calculateNewValue(grid, x, y) ==
    LET cell == grid[xyToIndex(x, y)]
        difference == calculateDifferenceBetweenCellAndNeighbours(grid, cell, x, y)
        reaction == FMul(FMul(cell.a, cell.b), cell.b)
        feedRate == getFeedRate(x, y)
        killRate == getKillRate(x, y)
    IN  [a |-> cell.a + FMul(FMul(DIFFUSION_RATE_A, difference.a) - reaction
                               + FMul(feedRate, Scale - cell.a), TIME_STEP),
         b |-> cell.b + FMul(FMul(DIFFUSION_RATE_B, difference.b) + reaction
                               - FMul(killRate + feedRate, cell.b), TIME_STEP),
         reads |-> difference.reads]

\* The cells in the order the nested loops of updateGrid visit them: one
\* row of ScanOrder for each x of the outer loop, with the y of the inner
\* loop along it.
ScanOrder == [i \in 1 .. WIDTH |-> [j \in 1 .. HEIGHT |-> <<i - 1, j - 1>>]]

\* The inner loop of updateGrid over the cells of `row`, on the memory
\* out.mem (buffer address -> grid).  Each iteration reads the buffer at
\* address src as it is at that moment and stores into the buffer at address
\* dst.  out.k numbers the iteration, out.writes lists the stores made
\* (index, in order), out.reads the accesses to the buffer at src.
RECURSIVE updateRow(_, _, _, _)
updateRow(row, src, dst, out) ==
    IF out.k > Len(row) THEN out
    ELSE LET x == row[out.k][1]
             y == row[out.k][2]
             index == xyToIndex(x, y)
             new == calculateNewValue(out.mem[src], x, y)
         IN  updateRow(row, src, dst,
                 [k |-> out.k + 1,
                  mem |-> [out.mem EXCEPT ![dst][index] = [a |-> new.a, b |-> new.b]],
                  writes |-> Append(out.writes, index),
                  reads |-> out.reads \cup {[x |-> x, y |-> y, dx |-> 0, dy |-> 0,
                                             index |-> index]}
                            \cup {[x |-> x, y |-> y, dx |-> new.reads[i].dx,
                                   dy |-> new.reads[i].dy,
                                   index |-> new.reads[i].index]
                                  : i \in DOMAIN new.reads}])

\* The outer loop, from row i of `order` on
RECURSIVE updateLoop(_, _, _, _, _)
updateLoop(order, i, src, dst, out) ==
    IF i > Len(order) THEN out
    ELSE updateLoop(order, i + 1, src, dst,
                    updateRow(order[i], src, dst, [out EXCEPT !.k = 1]))

\* The loop before its first iteration, on the memory m
loopEntry(m) == [k |-> 1, mem |-> m, writes |-> <<>>, reads |-> {}]

\* Mutants of updateGrid: the neighbourhood is read from the buffer being
\* written; the new values are stored in place.
updateGridReadingDestination(m, src, dst) == updateLoop(ScanOrder, 1, dst, dst, loopEntry(m))

updateGridInPlace(m, src, dst) == updateLoop(ScanOrder, 1, src, src, loopEntry(m))

updateGrid(m, src, dst) == updateLoop(ScanOrder, 1, src, dst, loopEntry(m))

square(x) == x * x

\* Mutant of withinDistanceOfCentre: the centre column is off by one.
withinDistanceOfCentreShifted(x, y, distance) ==
    square(x - WIDTH \div 2 + 1) + square(y - HEIGHT \div 2) < square(distance)

withinDistanceOfCentre(x, y, distance) ==
    square(x - WIDTH \div 2) + square(y - HEIGHT \div 2) < square(distance)

seedCell(x, y) ==
    IF withinDistanceOfCentre(x, y, CENTRE_CIRCLE_RADIUS)
    THEN [a |-> 0, b |-> Scale]
    ELSE [a |-> Scale, b |-> 0]

\* The inner loop of seedGrid for column x: out.k - 1 is y, out.grid the
\* buffer, out.writes the indices stored to, in order.
RECURSIVE seedColumn(_, _)
seedColumn(x, out) ==
    IF out.k > HEIGHT THEN out
    ELSE LET y == out.k - 1
             index == xyToIndex(x, y)
         IN  seedColumn(x, [k |-> out.k + 1,
                            grid |-> [out.grid EXCEPT ![index] = seedCell(x, y)],
                            writes |-> Append(out.writes, index)])

\* The outer loop, from column x on
RECURSIVE seedLoop(_, _)
seedLoop(x, out) ==
    IF x >= WIDTH THEN out
    ELSE seedLoop(x + 1, seedColumn(x, [out EXCEPT !.k = 1]))

seedGrid(grid) == seedLoop(0, [k |-> 1, grid |-> grid, writes |-> <<>>])

\* ------------------------------------------------------------------------
\* Renderer
\* ------------------------------------------------------------------------
colourA == [red |-> 0, green |-> 0, blue |-> 0]

colourB == [red |-> 50, green |-> 230, blue |-> 255]

\* What a build does with a float-to-byte conversion whose truncated value
\* is outside 0..255 (undefined in C): keep the low 8 bits, or saturate.
ByteConversions == {"wrap", "saturate"}

\* Mutant of toByte: the conversion rounds to nearest.
toByteRounding(v, ub) ==
    LET n == (v + Scale \div 2) \div Scale
    IN  IF n >= 0 /\ n <= 255 THEN n
        ELSE IF ub = "wrap" THEN n % 256
        ELSE IF n < 0 THEN 0 ELSE 255

\* (byte)v for a float v
toByte(v, ub) ==
    LET n == TruncDiv(v, Scale)
    IN  IF n >= 0 /\ n <= 255 THEN n
        ELSE IF ub = "wrap" THEN n % 256
        ELSE IF n < 0 THEN 0 ELSE 255

\* One channel of lerp: a + (byte)((b - a) * t), stored into a byte.
lerpChannel(a, b, t, ub) == (a + toByte((b - a) * t, ub)) % 256

lerp(a, b, t, ub) ==
    [red |-> lerpChannel(a.red, b.red, t, ub),
     green |-> lerpChannel(a.green, b.green, t, ub),
     blue |-> lerpChannel(a.blue, b.blue, t, ub)]

\* sprintf(iterationStr, "%d", iteration) for iteration >= 0
Digits == <<"0", "1", "2", "3", "4", "5", "6", "7", "8", "9">>

\* Mutant of sprintfD: only the last digit is printed.
sprintfLastDigit(n) == Digits[(n % 10) + 1]

RECURSIVE sprintfD(_)
sprintfD(n) ==
    IF n < 10 THEN Digits[n + 1] ELSE sprintfD(n \div 10) \o Digits[(n % 10) + 1]

fileName(it) == ("Output" \o sprintfD(it)) \o ".bmp"

\* The inner pixel loop of saveSimulation for column x, on the raster of the
\* image library: out.k - 1 is y, out.raster is the raster, out.drawn lists
\* the DrawPixel calls made, out.reads the grid accesses.
RECURSIVE drawColumn(_, _, _, _)
drawColumn(grid, x, ub, out) ==
    IF out.k > HEIGHT THEN out
    ELSE LET y == out.k - 1
             index == xyToIndex(x, y)
             cell == grid[index]
             denominator == cell.b + cell.a
             reads == out.reads \cup {[x |-> x, y |-> y, dx |-> 0, dy |-> 0,
                                       index |-> index]}
         IN  IF denominator # 0
             THEN LET pixelColour == lerp(colourA, colourB,
                                          FDiv(cell.b, denominator), ub)
                  IN  drawColumn(grid, x, ub,
                          [k |-> out.k + 1,
                           raster |-> [out.raster EXCEPT ![<<y, x>>] = pixelColour],
                           drawn |-> Append(out.drawn,
                                            [row |-> y, col |-> x, colour |-> pixelColour]),
                           reads |-> reads])
             ELSE drawColumn(grid, x, ub, [out EXCEPT !.k = @ + 1, !.reads = reads])

\* The outer loop, from column x on
RECURSIVE drawLoop(_, _, _, _)
drawLoop(grid, x, ub, out) ==
    IF x >= WIDTH THEN out
    ELSE drawLoop(grid, x + 1, ub, drawColumn(grid, x, ub, [out EXCEPT !.k = 1]))

\* The image library (LibBMP, not part of src/): a raster that DrawPixel
\* writes and SaveBMPFile stores under a name.
Pixels == (0 .. (HEIGHT - 1)) \X (0 .. (WIDTH - 1))

blankRaster == [p \in Pixels |-> "blank"]

SaveBMPFile(fs, name, image, info) ==
    [n \in DOMAIN fs \cup {name} |->
        IF n = name
        THEN [pixels |-> image, info |-> info,
              count |-> IF name \in DOMAIN fs THEN fs[name].count + 1 ELSE 1]
        ELSE fs[n]]

\* ------------------------------------------------------------------------
\* The intended step: all cells at once
\* ------------------------------------------------------------------------
CellX(i) == i % WIDTH

CellY(i) == i \div WIDTH

\* The update of all cells at once from the grid g
simultaneousStep(g) ==
    [i \in Cells |-> LET new == calculateNewValue(g, CellX(i), CellY(i))
                     IN  [a |-> new.a, b |-> new.b]]

seeded == [i \in Cells |-> seedCell(CellX(i), CellY(i))]

\* ------------------------------------------------------------------------
\* State
\* ------------------------------------------------------------------------
VARIABLES
    pc,           \* position in startSimulation (or in the function harness)
    currentGrid,  \* Cell* currentGrid: NULL or a buffer address
    newGrid,      \* Cell* newGrid
    mem,          \* the two heap blocks: address -> grid contents
    iteration,    \* static int iteration
    raster,       \* the raster of the image library
    files,        \* the files written: name -> image
    call,         \* the last call of seedGrid, updateGrid or saveSimulation
    steps,        \* calls of updateGrid completed
    updates,      \* the (source, destination) arguments of those calls
    settledLog    \* history: settledLog[n + 1] is the grid n steps after the seed

vars == <<pc, currentGrid, newGrid, mem, iteration, raster, files, call, steps, updates,
          settledLog>>

Addresses == {1, 2}

noCall == [fn |-> "none", src |-> NULL, dst |-> NULL, pre |-> <<>>, it |-> 0,
           at |-> "none", writes |-> <<>>, reads |-> {}, drawn |-> <<>>]

\* Contents of memory that was never written: some values, not known.
Junk == <<[a |-> 0, b |-> 0], [a |-> Scale, b |-> Scale], [a |-> -700, b |-> 300]>>

junkGrid(p, r) == [i \in Cells |-> Junk[((p * i + r) % Len(Junk)) + 1]]

JunkGrids == {junkGrid(p, r) : p \in 0 .. 1, r \in 0 .. (Len(Junk) - 1)}

\* ------------------------------------------------------------------------
\* startSimulation
\* ------------------------------------------------------------------------
\* createGrid: malloc returns a fresh block or NULL; the result is returned
\* unchecked.
createGrid(address) == {NULL, address}

Init ==
    /\ pc = "createCurrent"
    /\ currentGrid = NULL
    /\ newGrid = NULL
    /\ mem \in [Addresses -> JunkGrids]
    /\ iteration = 0
    /\ raster = blankRaster
    /\ files = <<>>
    /\ call = noCall
    /\ steps = 0
    /\ updates = <<>>
    /\ settledLog = <<>>

CreateCurrent ==
    /\ pc = "createCurrent"
    /\ currentGrid' \in createGrid(1)
    /\ pc' = "createNew"
    /\ UNCHANGED <<newGrid, mem, iteration, raster, files, call, steps, updates, settledLog>>

CreateNew ==
    /\ pc = "createNew"
    /\ newGrid' \in createGrid(2)
    /\ pc' = "load"
    /\ UNCHANGED <<currentGrid, mem, iteration, raster, files, call, steps, updates, settledLog>>

\* LoadBMPFile("blank.bmp", &width, &height); width and height are unused.
LoadBlank ==
    /\ pc = "load"
    /\ raster' = blankRaster
    /\ pc' = "seed"
    /\ UNCHANGED <<currentGrid, newGrid, mem, iteration, files, call, steps, updates, settledLog>>

\* seedGrid(currentGrid), then the loop's iteration = 0.  A store through a
\* null pointer (address 0 is not mapped): the process is killed.
Seed ==
    /\ pc = "seed"
    /\ IF currentGrid = NULL
       THEN /\ call' = [noCall EXCEPT !.fn = "seedGrid", !.dst = currentGrid,
                                      !.pre = mem, !.at = pc]
            /\ pc' = "crashed"
            /\ UNCHANGED <<mem, iteration, settledLog>>
       ELSE LET out == seedGrid(mem[currentGrid])
            IN  /\ mem' = [mem EXCEPT ![currentGrid] = out.grid]
                /\ call' = [noCall EXCEPT !.fn = "seedGrid", !.dst = currentGrid,
                                          !.pre = mem, !.at = pc,
                                          !.writes = out.writes]
                /\ iteration' = 0
                /\ settledLog' = <<seeded>>
                /\ pc' = "loop"
    /\ UNCHANGED <<currentGrid, newGrid, raster, files, steps, updates>>

\* for (iteration = 0; iteration < ITERATIONS; ...)
LoopTest ==
    /\ pc = "loop"
    /\ pc' = IF iteration < ITERATIONS THEN "update" ELSE "final"
    /\ UNCHANGED <<currentGrid, newGrid, mem, iteration, raster, files, call, steps, updates,
                   settledLog>>

\* The buffers the two branches of the loop body pass to updateGrid, and
\* the one they pass to saveSimulation.
\* Mutants: the odd branch passes newGrid as destination too; the snapshot
\* is taken from the buffer that was just written.
destinationAlwaysNew(it) == newGrid

capturedFromDestination(it) == IF it % 2 = 0 THEN newGrid ELSE currentGrid

sourceOf(it) == IF it % 2 = 0 THEN currentGrid ELSE newGrid

destinationOf(it) == IF it % 2 = 0 THEN newGrid ELSE currentGrid

capturedOf(it) == IF it % 2 = 0 THEN currentGrid ELSE newGrid

finalOf(n) == IF n % 2 = 0 THEN currentGrid ELSE newGrid

Update ==
    /\ pc = "update"
    /\ LET src == sourceOf(iteration)
           dst == destinationOf(iteration)
       IN  IF src = NULL \/ dst = NULL
           THEN /\ call' = [noCall EXCEPT !.fn = "updateGrid", !.src = src,
                                          !.dst = dst, !.pre = mem, !.it = iteration,
                                          !.at = pc]
                /\ pc' = "crashed"
                /\ UNCHANGED <<mem, steps, updates, settledLog>>
           ELSE LET out == updateGrid(mem, src, dst)
                IN  /\ mem' = out.mem
                    /\ call' = [noCall EXCEPT !.fn = "updateGrid", !.src = src,
                                              !.dst = dst, !.pre = mem,
                                              !.it = iteration, !.at = pc,
                                              !.writes = out.writes,
                                              !.reads = out.reads]
                    /\ steps' = steps + 1
                    /\ updates' = Append(updates, <<src, dst>>)
                    /\ settledLog' = Append(settledLog,
                                            simultaneousStep(settledLog[Len(settledLog)]))
                    /\ pc' = "capture"
    /\ UNCHANGED <<currentGrid, newGrid, iteration, raster, files>>

\* saveSimulation(grid at address g, it) from position `at`
saveSimulation(g, it, ub) ==
    LET out == drawLoop(mem[g], 0, ub,
                        [k |-> 1, raster |-> raster, drawn |-> <<>>, reads |-> {}])
    IN  /\ raster' = out.raster
        /\ files' = SaveBMPFile(files, fileName(it), out.raster,
                                [iteration |-> it, grid |-> mem[g], steps |-> steps,
                                 at |-> pc])
        /\ call' = [noCall EXCEPT !.fn = "saveSimulation", !.src = g, !.pre = mem,
                                  !.it = it, !.at = pc, !.drawn = out.drawn,
                                  !.reads = out.reads]

\* if (iteration % IterationCapture == 0) saveSimulation(...); iteration++
Capture ==
    /\ pc = "capture"
    /\ IF iteration % IterationCapture = 0
       THEN \E ub \in ByteConversions : saveSimulation(capturedOf(iteration), iteration, ub)
       ELSE UNCHANGED <<raster, files, call>>
    /\ iteration' = iteration + 1
    /\ pc' = "loop"
    /\ UNCHANGED <<currentGrid, newGrid, mem, steps, updates, settledLog>>

Final ==
    /\ pc = "final"
    /\ \E ub \in ByteConversions : saveSimulation(finalOf(ITERATIONS), ITERATIONS, ub)
    /\ pc' = "done"
    /\ UNCHANGED <<currentGrid, newGrid, mem, iteration, steps, updates, settledLog>>

Next == CreateCurrent \/ CreateNew \/ LoadBlank \/ Seed \/ LoopTest \/ Update
        \/ Capture \/ Final

Spec == Init /\ [][Next]_vars

\* ------------------------------------------------------------------------
\* The functions on their own: one call of seedGrid, updateGrid or
\* saveSimulation on buffers that hold any of a family of grids.
\* ------------------------------------------------------------------------
InputCells ==
    <<[a |-> Scale, b |-> 0], [a |-> 0, b |-> Scale], [a |-> 0, b |-> 0],
      [a |-> 1000, b |-> 500], [a |-> Scale, b |-> -1], [a |-> 700, b |-> 1500],
      [a |-> 3000, b |-> -1000]>>

inputGrid(p, q, r) ==
    [i \in Cells |-> InputCells[((p * (i % WIDTH) + q * (i \div WIDTH) + r)
                                 % Len(InputCells)) + 1]]

InputGridsA == {inputGrid(p, q, r) : p \in {1, 2}, q \in {1, 3},
                                     r \in 0 .. (Len(InputCells) - 1)}

InputGridsB == {inputGrid(p, 2, r) : p \in {0, 1}, r \in {0, 3, 5}}

InitGrid ==
    /\ pc = "input"
    /\ currentGrid = 1
    /\ newGrid = 2
    /\ mem \in {[g \in Addresses |-> IF g = 1 THEN ga ELSE gb] :
                    ga \in InputGridsA, gb \in InputGridsB}
    /\ iteration = 0
    /\ raster = blankRaster
    /\ files = <<>>
    /\ call = noCall
    /\ steps = 0
    /\ updates = <<>>
    /\ settledLog = <<>>

FnSeed(g) ==
    /\ pc = "input"
    /\ LET out == seedGrid(mem[g])
       IN  /\ mem' = [mem EXCEPT ![g] = out.grid]
           /\ call' = [noCall EXCEPT !.fn = "seedGrid", !.dst = g, !.pre = mem,
                                     !.at = pc, !.writes = out.writes]
    /\ pc' = "output"
    /\ UNCHANGED <<currentGrid, newGrid, iteration, raster, files, steps, updates,
                   settledLog>>

FnUpdate(src, dst) ==
    /\ pc = "input"
    /\ src # dst
    /\ LET out == updateGrid(mem, src, dst)
       IN  /\ mem' = out.mem
           /\ call' = [noCall EXCEPT !.fn = "updateGrid", !.src = src, !.dst = dst,
                                     !.pre = mem, !.at = pc, !.writes = out.writes,
                                     !.reads = out.reads]
    /\ steps' = steps + 1
    /\ updates' = Append(updates, <<src, dst>>)
    /\ pc' = "output"
    /\ UNCHANGED <<currentGrid, newGrid, iteration, raster, files, settledLog>>

FnSave(g, it, ub) ==
    /\ pc = "input"
    /\ saveSimulation(g, it, ub)
    /\ pc' = "output"
    /\ UNCHANGED <<currentGrid, newGrid, mem, iteration, steps, updates, settledLog>>

NextGrid ==
    \/ \E g \in Addresses : FnSeed(g)
    \/ \E src \in Addresses, dst \in Addresses : FnUpdate(src, dst)
    \/ \E g \in Addresses, it \in {0, 7, 120}, ub \in ByteConversions : FnSave(g, it, ub)

SpecGrid == InitGrid /\ [][NextGrid]_vars

\* ------------------------------------------------------------------------
\* Properties
\* ------------------------------------------------------------------------
\* Other contents the destination could have held
Sentinels == {junkGrid(1, 1), seeded}

\* C1: one call updateGrid(src, dst) on distinct buffers leaves every cell of
\* src as it was, and the resulting dst is the same whatever dst held before
\* the call (nothing is read from dst).
C1_SourceKeptDestinationUnread ==
    (call.fn = "updateGrid" /\ call.at = "input") =>
        /\ mem[call.src] = call.pre[call.src]
        /\ \A g \in Sentinels :
              updateGrid([call.pre EXCEPT ![call.dst] = g], call.src, call.dst).mem[call.dst]
                  = mem[call.dst]

C1_Witness ==
    /\ call.fn = "updateGrid"
    /\ call.at = "input"
    /\ call.src # call.dst
    /\ call.pre[call.dst] # call.pre[call.src]
    /\ call.pre[call.dst] \notin Sentinels
    /\ mem[call.dst] # call.pre[call.dst]
    /\ mem[call.src] = call.pre[call.src]

\* Other scan orders of the cells: y outside and x inside, and the order of
\* the code backwards.
RowOrder == [j \in 1 .. HEIGHT |-> [i \in 1 .. WIDTH |-> <<i - 1, j - 1>>]]

BackwardOrder == [i \in 1 .. WIDTH |-> [j \in 1 .. HEIGHT |-> <<WIDTH - i, HEIGHT - j>>]]

\* C2: after updateGrid(src, dst) on distinct buffers every cell of dst has
\* been written exactly once and holds the per-cell update of the pre-step
\* src, read only at the cell and its in-grid neighbours; the result is the
\* simultaneous update and is the same for other scan orders.
C2_SimultaneousUpdate ==
    (call.fn = "updateGrid" /\ call.at = "input") =>
        /\ \A i \in Cells :
              Cardinality({k \in DOMAIN call.writes : call.writes[k] = i}) = 1
        /\ Len(call.writes) = WIDTH * HEIGHT
        /\ mem[call.dst] = simultaneousStep(call.pre[call.src])
        /\ \A r \in call.reads :
              /\ r.dx \in -1 .. 1 /\ r.dy \in -1 .. 1
              /\ isWithinGrid(r.x + r.dx, r.y + r.dy)
              /\ r.index = xyToIndex(r.x + r.dx, r.y + r.dy)
        /\ \A order \in {RowOrder, BackwardOrder} :
              updateLoop(order, 1, call.src, call.dst, loopEntry(call.pre)).mem = mem

\* An in-place update of the same source would have given something else.
C2_Witness ==
    /\ call.fn = "updateGrid"
    /\ call.at = "input"
    /\ call.src # call.dst
    /\ mem[call.dst] = simultaneousStep(call.pre[call.src])
    /\ updateLoop(ScanOrder, 1, call.src, call.src, loopEntry(call.pre)).mem[call.src]
           # mem[call.dst]

InGrid(x, y) == x \in 0 .. (WIDTH - 1) /\ y \in 0 .. (HEIGHT - 1)

Orthogonal == {<<-1, 0>>, <<1, 0>>, <<0, -1>>, <<0, 1>>}

Diagonal == {<<-1, -1>>, <<-1, 1>>, <<1, -1>>, <<1, 1>>}

\* The weighted value (field f) of the neighbour of (x, y) at offset o, 0
\* when that position is outside the grid
Contribution(g, f, x, y, o, w) ==
    IF InGrid(x + o[1], y + o[2]) THEN FMul(w, g[(x + o[1]) + (y + o[2]) * WIDTH][f]) ELSE 0

WeightedSum(g, f, x, y) ==
      Contribution(g, f, x, y, <<-1, 0>>, ADJACENT_NEIGHBOUR_WEIGHT)
    + Contribution(g, f, x, y, <<1, 0>>, ADJACENT_NEIGHBOUR_WEIGHT)
    + Contribution(g, f, x, y, <<0, -1>>, ADJACENT_NEIGHBOUR_WEIGHT)
    + Contribution(g, f, x, y, <<0, 1>>, ADJACENT_NEIGHBOUR_WEIGHT)
    + Contribution(g, f, x, y, <<-1, -1>>, DIAGONAL_NEIGHBOUR_WEIGHT)
    + Contribution(g, f, x, y, <<-1, 1>>, DIAGONAL_NEIGHBOUR_WEIGHT)
    + Contribution(g, f, x, y, <<1, -1>>, DIAGONAL_NEIGHBOUR_WEIGHT)
    + Contribution(g, f, x, y, <<1, 1>>, DIAGONAL_NEIGHBOUR_WEIGHT)

\* How many of the sides of the grid the cell (x, y) lies on, 0 to 2 here
SidesTouched(x, y) ==
    (IF x = 0 \/ x = WIDTH - 1 THEN 1 ELSE 0) + (IF y = 0 \/ y = HEIGHT - 1 THEN 1 ELSE 0)

ReadsAt(d, offsets) == {k \in DOMAIN d.reads : <<d.reads[k].dx, d.reads[k].dy>> \in offsets}

NeighbourTermsRight(g, i) ==
    LET x == CellX(i)
        y == CellY(i)
        d == calculateDifferenceBetweenCellAndNeighbours(g, g[i], x, y)
        sides == SidesTouched(x, y)
    IN  /\ d.self = 1
        /\ d.a = WeightedSum(g, "a", x, y) - g[i].a
        /\ d.b = WeightedSum(g, "b", x, y) - g[i].b
        /\ \A o \in Orthogonal \cup Diagonal :
              LET ks == ReadsAt(d, {o})
              IN  IF InGrid(x + o[1], y + o[2])
                  THEN /\ Cardinality(ks) = 1
                       /\ \A k \in ks :
                             /\ d.reads[k].index = (x + o[1]) + (y + o[2]) * WIDTH
                             /\ d.reads[k].weight = IF o \in Orthogonal
                                                    THEN ADJACENT_NEIGHBOUR_WEIGHT
                                                    ELSE DIAGONAL_NEIGHBOUR_WEIGHT
                  ELSE ks = {}
        /\ Cardinality(ReadsAt(d, Orthogonal)) = CASE sides = 2 -> 2 [] sides = 1 -> 3
                                                   [] OTHER -> 4
        /\ Cardinality(ReadsAt(d, Diagonal)) = CASE sides = 2 -> 1 [] sides = 1 -> 2
                                                 [] OTHER -> 4
        /\ Len(d.reads) = CASE sides = 2 -> 3 [] sides = 1 -> 5 [] OTHER -> 8

\* C6: for every in-grid cell calculateDifferenceBetweenCellAndNeighbours
\* subtracts the cell's own (A,B) once and adds each in-grid neighbour once,
\* orthogonal ones with the adjacent weight and diagonal ones with the
\* diagonal weight, and nothing for positions outside the grid: 3 neighbours
\* (2 + 1) at a corner, 5 (3 + 2) on an edge, 8 (4 + 4) inside.
C6_NeighbourTerms ==
    (call.fn = "updateGrid" /\ call.at = "input") =>
        \A i \in Cells : NeighbourTermsRight(call.pre[call.src], i)

C6_Witness ==
    /\ call.fn = "updateGrid"
    /\ call.at = "input"
    /\ \E i, j, k \in Cells :
          /\ SidesTouched(CellX(i), CellY(i)) = 2
          /\ SidesTouched(CellX(j), CellY(j)) = 1
          /\ SidesTouched(CellX(k), CellY(k)) = 0
          /\ \A c \in {i, j, k} :
                /\ NeighbourTermsRight(call.pre[call.src], c)
                /\ WeightedSum(call.pre[call.src], "a", CellX(c), CellY(c)) # 0
                /\ WeightedSum(call.pre[call.src], "b", CellX(c), CellY(c)) # 0

\* The calls DrawPixel(y, x, ...) of the last saveSimulation for cell (x, y)
DrawnFor(x, y) ==
    {k \in DOMAIN call.drawn : call.drawn[k].row = y /\ call.drawn[k].col = x}

\* channelA + floor((channelB - channelA) * t)
FloorChannel(ca, cb, t) == ca + (((cb - ca) * t) \div Scale)

FloorColour(t) ==
    [red |-> FloorChannel(colourA.red, colourB.red, t),
     green |-> FloorChannel(colourA.green, colourB.green, t),
     blue |-> FloorChannel(colourA.blue, colourB.blue, t)]

DrawnExactly(x, y, colour) ==
    /\ Cardinality(DrawnFor(x, y)) = 1
    /\ \A k \in DrawnFor(x, y) : call.drawn[k].colour = colour

\* What C8 says of the cell i of the grid g; `others` are the cells the
\* interpolation rule is claimed for.
ColourRule(g, i, others(_)) ==
    LET x == CellX(i)
        y == CellY(i)
        cell == g[i]
    IN  /\ (cell.a = Scale /\ cell.b = 0) => DrawnExactly(x, y, colourA)
        /\ (cell.a = 0 /\ cell.b = Scale) => DrawnExactly(x, y, colourB)
        /\ (cell.a + cell.b = 0) => DrawnFor(x, y) = {}
        /\ (cell.a + cell.b # 0 /\ others(FDiv(cell.b, cell.a + cell.b))) =>
              DrawnExactly(x, y, FloorColour(FDiv(cell.b, cell.a + cell.b)))

AnyRatio(t) == TRUE

RatioInUnitInterval(t) == t >= 0 /\ t <= Scale

\* C8 as claimed: every cell with A+B # 0 is drawn with
\* channelA + floor((channelB - channelA) * B/(A+B)) in each channel.
C8_Original ==
    call.fn = "saveSimulation" =>
        \A i \in Cells : ColourRule(mem[call.src], i, AnyRatio)

\* C8 (amended): in saveSimulation a cell with A=1,B=0 is drawn with exactly
\* colourA, a cell with A=0,B=1 with exactly colourB, a cell with A+B = 0
\* causes no DrawPixel call, and every other cell whose ratio t = B/(A+B) lies
\* in [0,1] is drawn with channelA + floor((channelB - channelA) * t) in each
\* channel, truncated and not rounded.
C8_ColourMapping ==
    call.fn = "saveSimulation" =>
        \A i \in Cells : ColourRule(mem[call.src], i, RatioInUnitInterval)

C8_Witness ==
    /\ call.fn = "saveSimulation"
    /\ LET g == mem[call.src]
       IN  /\ \E i \in Cells : g[i] = [a |-> Scale, b |-> 0]
                               /\ DrawnExactly(CellX(i), CellY(i), colourA)
           /\ \E i \in Cells : g[i] = [a |-> 0, b |-> Scale]
                               /\ DrawnExactly(CellX(i), CellY(i), colourB)
           /\ \E i \in Cells : g[i].a + g[i].b = 0 /\ DrawnFor(CellX(i), CellY(i)) = {}
           /\ \E i \in Cells :
                 LET t == FDiv(g[i].b, g[i].a + g[i].b)
                 IN  /\ g[i].a > 0 /\ g[i].b > 0
                     /\ ((colourB.green - colourA.green) * t) % Scale >= Scale \div 2
                     /\ DrawnExactly(CellX(i), CellY(i), FloorColour(t))

\* The grid after n whole-grid steps from the seed
settled(n) == settledLog[n + 1]

\* C3: in every iteration of the simulation loop the source and destination
\* passed to updateGrid are distinct and the roles alternate from one
\* iteration to the next, so after i completed steps the buffer written last
\* holds the settled state of step i (and the other one that of step i-1).
C3_PingPong ==
    /\ Len(updates) = steps
    /\ call.fn = "updateGrid" => call.src # call.dst
    /\ \A k \in DOMAIN updates :
          /\ updates[k][1] \in Addresses
          /\ updates[k][2] \in Addresses
          /\ updates[k][1] # updates[k][2]
          /\ k > 1 => /\ updates[k][1] = updates[k - 1][2]
                      /\ updates[k][2] = updates[k - 1][1]
    /\ (steps = 0 /\ pc \in {"loop", "update"}) => mem[currentGrid] = seeded
    /\ steps >= 1 =>
          LET now == settled(steps)
          IN  /\ mem[updates[steps][2]] = now
              /\ mem[updates[steps][1]] = settled(steps - 1)
              /\ pc \in {"loop", "update"} => mem[sourceOf(iteration)] = now

C3_Witness ==
    /\ steps >= 3
    /\ updates[steps] = <<newGrid, currentGrid>>
    /\ updates[steps - 1] = <<currentGrid, newGrid>>
    /\ mem[currentGrid] = settled(steps)
    /\ mem[newGrid] # mem[currentGrid]

Captured == {i \in 0 .. (ITERATIONS - 1) : i % IterationCapture = 0}

\* C5: a run performs exactly ITERATIONS whole-grid steps and writes exactly
\* one file for each iteration i < ITERATIONS that is a multiple of the
\* snapshot interval, plus one final file numbered ITERATIONS; the names are
\* pairwise distinct, so no snapshot overwrites another.
C5_OneFilePerCapture ==
    /\ steps <= ITERATIONS
    /\ \A name \in DOMAIN files : files[name].count = 1
    /\ pc = "done" =>
          /\ steps = ITERATIONS
          /\ DOMAIN files = {fileName(i) : i \in Captured \cup {ITERATIONS}}
          /\ Cardinality(DOMAIN files) = Cardinality(Captured) + 1
          /\ \A i \in Captured \cup {ITERATIONS} : files[fileName(i)].info.iteration = i

C5_Witness ==
    /\ pc = "done"
    /\ steps = ITERATIONS
    /\ Cardinality(DOMAIN files) >= 3
    /\ \E i \in Captured : i >= 10 /\ fileName(i) \in DOMAIN files

FirstStepDone == pc = "capture" /\ iteration = 0 /\ steps = 1 /\ call.fn = "updateGrid"

Distance2(i) == square(CellX(i) - WIDTH \div 2) + square(CellY(i) - HEIGHT \div 2)

MirrorX(x) == 2 * (WIDTH \div 2) - x

MirrorY(y) == 2 * (HEIGHT \div 2) - y

\* C7 as claimed: after one step from the seed any two cells at the same
\* distance from the centre (W/2, H/2) hold the same (A,B).
C7_Original ==
    FirstStepDone =>
        \A i, j \in Cells : Distance2(i) = Distance2(j) => mem[newGrid][i] = mem[newGrid][j]

\* C7 (amended): with the circular seed of seedGrid and constant feed and
\* kill rates, after one updateGrid step a cell and its reflection through
\* the centre column x = W/2 hold the same (A,B) when neither lies in the
\* first or last column, and a cell and its reflection through the centre row
\* y = H/2 hold the same (A,B) when neither lies in the first or last row
\* (equal up to floating-point rounding in the code).
C7_MirrorSymmetry ==
    FirstStepDone =>
        \A i \in Cells :
            LET x == CellX(i)
                y == CellY(i)
                g == mem[newGrid]
            IN  /\ (x \in 1 .. (WIDTH - 2) /\ MirrorX(x) \in 1 .. (WIDTH - 2)) =>
                      g[i] = g[MirrorX(x) + y * WIDTH]
                /\ (y \in 1 .. (HEIGHT - 2) /\ MirrorY(y) \in 1 .. (HEIGHT - 2)) =>
                      g[i] = g[x + MirrorY(y) * WIDTH]

C7_Witness ==
    /\ FirstStepDone
    /\ call.pre[currentGrid] = seeded
    /\ \E i \in Cells :
          LET x == CellX(i)
              g == mem[newGrid]
              j == MirrorX(x) + CellY(i) * WIDTH
          IN  /\ x \in 1 .. (WIDTH - 2)
              /\ MirrorX(x) \in 1 .. (WIDTH - 2)
              /\ MirrorX(x) # x
              /\ g[i] = g[j]
              /\ g[i] # seeded[i]
              /\ g[i].a \notin {0, Scale}

\* C9: if the allocation of either grid buffer fails the run aborts:
\* seedGrid, updateGrid and saveSimulation are never called with a buffer
\* whose allocation failed.
C9_NoCallOnFailedAllocation ==
    /\ call.fn = "seedGrid" => call.dst # NULL
    /\ call.fn = "updateGrid" => call.src # NULL /\ call.dst # NULL
    /\ call.fn = "saveSimulation" => call.src # NULL

\* C10: in every reachable state of a run each grid access of seedGrid,
\* updateGrid and saveSimulation uses an index x + y*W with 0 <= x < W and
\* 0 <= y < H, within [0, W*H); a neighbour at offset (dx,dy) of (x,y) is read
\* only when (x+dx, y+dy) is in the grid, so no read lands on a cell of
\* another row or on the opposite edge.
C10_AccessesInGrid ==
    /\ \A r \in call.reads :
          /\ InGrid(r.x, r.y)
          /\ InGrid(r.x + r.dx, r.y + r.dy)
          /\ r.index = (r.x + r.dx) + (r.y + r.dy) * WIDTH
          /\ r.index % WIDTH = r.x + r.dx
          /\ r.index \div WIDTH = r.y + r.dy
          /\ r.index \in Cells
    /\ \A k \in DOMAIN call.writes : call.writes[k] \in Cells

ReadsOf(x, y) == {r \in call.reads : r.x = x /\ r.y = y}

C10_Witness ==
    /\ call.fn = "updateGrid"
    /\ pc = "capture"
    /\ Cardinality(ReadsOf(0, 0)) = 4
    /\ Cardinality(ReadsOf(0, 1)) = 6
    /\ Cardinality(ReadsOf(WIDTH - 1, HEIGHT - 1)) = 4
    /\ Cardinality(ReadsOf(1, 1)) = 9
    /\ Len(call.writes) = WIDTH * HEIGHT
=============================================================================
